---- MODULE Spec2Model ----
(***************************************************************************)
(* Handler-level model of the Solana example programs under src/solana.    *)
(*                                                                         *)
(* The ledger maps an address to an account: the program that owns it, its *)
(* lamport balance (an unsigned word) and its data buffer.  A data buffer  *)
(* is a sequence of cells, one per borsh field, each with its byte width   *)
(* and its value.  One action is one call of a handler on a positional     *)
(* list of accounts, a set of transaction signers and instruction data.    *)
(* A handler is translated statement by statement: an early `return Err`   *)
(* or a `?` ends the call with that error and the writes made so far, a    *)
(* panic (slice out of range, arithmetic overflow in a build with overflow *)
(* checks) ends it with "Panic" and the writes made so far.  The effect of *)
(* the handler on the AccountInfo buffers is what is modelled; the         *)
(* runtime's roll-back of a failed transaction is outside the handlers.    *)
(***************************************************************************)
EXTENDS Integers, Sequences, FiniteSets, TLC

\* ledger, call and overflow_checks are the program's state, its last call
\* and its build; initialized is a history variable: the accounts on which
\* an initialize call has succeeded; logged is what the last call wrote to
\* the program log with a formatted msg! of a computed value; inflight holds
\* the operations a concurrent dispatcher has started and not yet finished,
\* each with its own position, and the ledger they started from;
\* withdrawals is a history variable: per account, what it could pay out at
\* the start and the sum of the amounts of its successful withdraw_user
\* calls since.
VARIABLES ledger, call, overflow_checks, initialized, logged, inflight,
          withdrawals

vars == <<ledger, call, overflow_checks, initialized, logged, inflight,
          withdrawals>>

(***************************************************************************)
(* Bounds.  Unsigned 64-bit words are scaled to WordBits bits; every       *)
(* arithmetic step keeps that width.                                       *)
(***************************************************************************)
WordBits == 3

NumWallets == 2

\* The largest bump seed byte (255 in the program, scaled).
MaxBump == 3

U64_MAX == 2^WordBits - 1

U64 == 0..U64_MAX

\* The amounts carried by instruction data: a quarter and a half of the
\* word range.
Amounts == {2^(WordBits - 2), 2^(WordBits - 1)}

\* The instruction data of a handler that reads one u64 amount; the empty
\* sequence stands for data shorter than the amount.
AmountData == {<<>>} \cup {<<a>> : a \in Amounts}

\* Addresses that have a private key and can sign a transaction.
Wallets == 1..NumWallets

\* The program under execution (the program_id argument) and a foreign one.
program_id == "program_id"

system_program == "system_program"

Programs == {program_id, system_program}

(***************************************************************************)
(* Results of a call.                                                      *)
(***************************************************************************)
Ret(r, a) == [result |-> r, accounts |-> a]

\* u64 `x -= y`: panics when the build has overflow checks, wraps otherwise.
SubU64(x, y, oc) ==
    IF x >= y THEN [panic |-> FALSE, v |-> x - y]
    ELSE IF oc THEN [panic |-> TRUE, v |-> x]
    ELSE [panic |-> FALSE, v |-> x - y + U64_MAX + 1]

\* u64 `x += y`: panics when the build has overflow checks, wraps otherwise.
AddU64(x, y, oc) ==
    IF x + y <= U64_MAX THEN [panic |-> FALSE, v |-> x + y]
    ELSE IF oc THEN [panic |-> TRUE, v |-> x]
    ELSE [panic |-> FALSE, v |-> (x + y) % (U64_MAX + 1)]

(***************************************************************************)
(* Data buffers and the borsh codec.                                       *)
(***************************************************************************)
Cell(w, v) == [w |-> w, v |-> v]

RECURSIVE data_len(_)
data_len(data) ==
    IF data = <<>> THEN 0 ELSE Head(data).w + data_len(Tail(data))

\* T::try_from_slice: succeeds iff the buffer is exactly as long as T.
try_from_slice(data, size) == data_len(data) = size

\* T::serialize into `&mut [u8]`: fields are written in order; the write
\* that no longer fits fails, and the fields before it stay written.
serialize(data, fields) ==
    LET n == IF Len(data) < Len(fields) THEN Len(data) ELSE Len(fields)
    IN  [ok   |-> Len(fields) <= Len(data),
         data |-> [i \in 1..Len(data) |->
                     IF i <= n THEN Cell(data[i].w, fields[i]) ELSE data[i]]]

Account(o, l, d) == [owner |-> o, lamports |-> l, data |-> d]

NoCall ==
    [op |-> "none", accts |-> <<>>, signers |-> {}, idata |-> <<>>,
     result |-> "none"]

\* No operation is in flight: every call runs from start to end on its own.
NoFlight == [genesis |-> <<>>, ops |-> <<>>, mixed |-> FALSE]

\* No tally of withdrawals is kept.
NoWithdrawals == [available |-> <<>>, total |-> <<>>]

\* The positional account lists of at most n accounts.
AccountLists(keys, n) == UNION {[1..m -> keys] : m \in 0..n}

\* The positional account lists, complete or cut short, whose i-th account
\* is one of roles[i].
RoleLists(roles) ==
    UNION {{l \in [1..m -> UNION {roles[i] : i \in 1..Len(roles)}] :
              \A i \in 1..m : l[i] \in roles[i]} : m \in 0..Len(roles)}

\* The common tail of every call action.
Commit(op, accts, signers, idata, r) ==
    /\ ledger' = r.accounts
    /\ call' = [op |-> op, accts |-> accts, signers |-> signers,
                idata |-> idata, result |-> r.result]
    /\ initialized' = IF op = "initialize" /\ r.result = "Ok"
                      THEN initialized \cup {accts[1]}
                      ELSE initialized
    /\ logged' = IF "logged" \in DOMAIN r THEN r.logged ELSE <<>>
    /\ withdrawals' =
         IF op = "withdraw_user" /\ r.result = "Ok"
            /\ withdrawals # NoWithdrawals
         THEN [withdrawals EXCEPT
                 !.total[accts[1]] =
                     IF @ + idata[1] > 2 * U64_MAX THEN 2 * U64_MAX
                     ELSE @ + idata[1]]
         ELSE withdrawals
    /\ UNCHANGED <<overflow_checks, inflight>>

(***************************************************************************)
(* missing_signer_check.rs                                                 *)
(***************************************************************************)
SignerKeys == 1..(NumWallets + 1)

transfer(accounts, accts, signers, idata, oc) ==
    IF Len(accts) < 2 THEN Ret("NotEnoughAccountKeys", accounts)
    ELSE
    LET user_account == accts[1]
        destination_account == accts[2]
    IN
    IF Len(idata) < 1 THEN Ret("Panic", accounts)
    ELSE
    LET amount == idata[1]
        debit == SubU64(accounts[user_account].lamports, amount, oc)
        a1 == [accounts EXCEPT ![user_account].lamports = debit.v]
        credit == AddU64(a1[destination_account].lamports, amount, oc)
        a2 == [a1 EXCEPT ![destination_account].lamports = credit.v]
    IN
    IF debit.panic THEN Ret("Panic", accounts)
    ELSE IF credit.panic THEN Ret("Panic", a1)
    ELSE Ret("Ok", a2)

InitSigner ==
    /\ ledger \in [SignerKeys -> {Account(o, l, <<>>) :
                                    o \in Programs, l \in {1, U64_MAX}}]
    /\ \A k \in SignerKeys :
         ledger[k].owner = IF k \in Wallets THEN system_program
                           ELSE program_id
    /\ call = NoCall
    /\ overflow_checks \in BOOLEAN
    /\ initialized = {}
    /\ logged = <<>>
    /\ inflight = NoFlight
    /\ withdrawals = NoWithdrawals

Transfer ==
    \E accts \in AccountLists(SignerKeys, 2), signers \in SUBSET Wallets,
       idata \in AmountData :
        Commit("transfer", accts, signers, idata,
               transfer(ledger, accts, signers, idata, overflow_checks))

NextSigner == Transfer

SpecSigner == InitSigner /\ [][NextSigner]_vars

\* C2: the transfer handler debits user_account only when it signed: a call
\* whose user_account is not a signer of the transaction is refused and
\* leaves the lamports of every account as they were, so an account that
\* never signs never loses lamports.
C2_TransferRequiresSigner ==
    [][(/\ call'.op = "transfer"
        /\ Len(call'.accts) >= 2
        /\ call'.accts[1] \notin call'.signers)
       => ledger' = ledger]_vars

(***************************************************************************)
(* missing_owner_check.rs                                                  *)
(***************************************************************************)
PubkeyBytes == 32

U64Bytes == 8

\* VaultData { authority: Pubkey, balance: u64 }
VaultData(authority, balance) ==
    <<Cell(PubkeyBytes, authority), Cell(U64Bytes, balance)>>

VaultDataSize == PubkeyBytes + U64Bytes

VaultKey == NumWallets + 1

VaultKeys == Wallets \cup {VaultKey}

vault_withdraw(accounts, accts, signers, idata, oc) ==
    IF Len(accts) < 3 THEN Ret("NotEnoughAccountKeys", accounts)
    ELSE
    LET vault_account == accts[1]
        authority_account == accts[2]
        recipient_account == accts[3]
        data == accounts[vault_account].data
    IN
    IF ~try_from_slice(data, VaultDataSize) THEN Ret("BorshIoError", accounts)
    ELSE IF data[1].v # authority_account
         THEN Ret("InvalidAccountData", accounts)
    ELSE IF Len(idata) < 1 THEN Ret("Panic", accounts)
    ELSE
    LET amount == idata[1]
        balance == SubU64(data[2].v, amount, oc)
        ser == serialize(data, <<data[1].v, balance.v>>)
        a1 == [accounts EXCEPT ![vault_account].data = ser.data]
        debit == SubU64(a1[vault_account].lamports, amount, oc)
        a2 == [a1 EXCEPT ![vault_account].lamports = debit.v]
        credit == AddU64(a2[recipient_account].lamports, amount, oc)
        a3 == [a2 EXCEPT ![recipient_account].lamports = credit.v]
    IN
    IF balance.panic THEN Ret("Panic", accounts)
    ELSE IF ~ser.ok THEN Ret("BorshIoError", a1)
    ELSE IF debit.panic THEN Ret("Panic", a1)
    ELSE IF credit.panic THEN Ret("Panic", a2)
    ELSE Ret("Ok", a3)

InitVault ==
    /\ \E o \in Programs, d \in {0, 1} :
         ledger = [k \in VaultKeys |->
                     IF k = VaultKey
                     THEN Account(o, U64_MAX,
                                  IF d = 1 THEN VaultData(1, U64_MAX)
                                  ELSE <<>>)
                     ELSE Account(system_program, 0, <<>>)]
    /\ call = NoCall
    /\ overflow_checks \in BOOLEAN
    /\ initialized = {}
    /\ logged = <<>>
    /\ inflight = NoFlight
    /\ withdrawals = NoWithdrawals

VaultWithdraw ==
    \E accts \in AccountLists(VaultKeys, 3), signers \in SUBSET Wallets,
       idata \in AmountData :
        /\ Len(accts) >= 1 => accts[1] = VaultKey
        /\ Len(accts) >= 2 => accts[2] \in Wallets
        /\ Commit("vault_withdraw", accts, signers, idata,
                  vault_withdraw(ledger, accts, signers, idata, overflow_checks))

NextVault == VaultWithdraw

SpecVault == InitVault /\ [][NextVault]_vars

\* C3: vault withdraw refuses a vault account that program_id does not own
\* before decoding it: the record of such an account is never rewritten and
\* its lamports are never debited.
C3_VaultOwnerChecked ==
    [][(/\ call'.op = "vault_withdraw"
        /\ Len(call'.accts) >= 3
        /\ ledger[call'.accts[1]].owner # program_id)
       => ledger' = ledger]_vars

(***************************************************************************)
(* account_data_matching.rs                                                *)
(***************************************************************************)
I64Bytes == 8

\* UserProfile { owner: Pubkey, escrow_account: Pubkey, total_deposits: u64 }
UserProfile(owner, escrow_account, total_deposits) ==
    <<Cell(PubkeyBytes, owner), Cell(PubkeyBytes, escrow_account),
      Cell(U64Bytes, total_deposits)>>

UserProfileSize == PubkeyBytes + PubkeyBytes + U64Bytes

\* EscrowAccount { beneficiary: Pubkey, amount: u64, release_time: i64 }
EscrowAccount(beneficiary, amount, release_time) ==
    <<Cell(PubkeyBytes, beneficiary), Cell(U64Bytes, amount),
      Cell(I64Bytes, release_time)>>

EscrowAccountSize == PubkeyBytes + U64Bytes + I64Bytes

\* TokenVault { authority: Pubkey, token_account: Pubkey }
TokenVault(authority, token_account) ==
    <<Cell(PubkeyBytes, authority), Cell(PubkeyBytes, token_account)>>

TokenVaultSize == PubkeyBytes + PubkeyBytes

\* `let current_time = 1000000_i64;  // Placeholder`
current_time == 1000000

ProfileKey == NumWallets + 1

EscrowA == NumWallets + 2

EscrowB == NumWallets + 3

TokenVaultKey == NumWallets + 4

TokenA == NumWallets + 5

TokenB == NumWallets + 6

EscrowKeys == 1..TokenB

\* Escrow release with the signer check moved ahead of the two ownership
\* checks: the ordering that C23 tells apart from the handler's.
escrow_release_signer_first(accounts, accts, signers, idata, oc) ==
    IF Len(accts) < 4 THEN Ret("NotEnoughAccountKeys", accounts)
    ELSE
    LET user_profile_account == accts[1]
        escrow_account == accts[2]
        beneficiary_account == accts[3]
        signer_account == accts[4]
        user_profile == accounts[user_profile_account].data
        escrow_data == accounts[escrow_account].data
    IN
    IF signer_account \notin signers
    THEN Ret("MissingRequiredSignature", accounts)
    ELSE IF accounts[user_profile_account].owner # program_id
    THEN Ret("IncorrectProgramId", accounts)
    ELSE IF accounts[escrow_account].owner # program_id
    THEN Ret("IncorrectProgramId", accounts)
    ELSE IF ~try_from_slice(user_profile, UserProfileSize)
    THEN Ret("BorshIoError", accounts)
    ELSE IF ~try_from_slice(escrow_data, EscrowAccountSize)
    THEN Ret("BorshIoError", accounts)
    ELSE IF user_profile[1].v # signer_account
    THEN Ret("InvalidAccountData", accounts)
    ELSE IF current_time < escrow_data[3].v
    THEN Ret("InvalidAccountData", accounts)
    ELSE
    LET amount == escrow_data[2].v
        ser == serialize(escrow_data,
                         <<escrow_data[1].v, 0, escrow_data[3].v>>)
        a1 == [accounts EXCEPT ![escrow_account].data = ser.data]
        debit == SubU64(a1[escrow_account].lamports, amount, oc)
        a2 == [a1 EXCEPT ![escrow_account].lamports = debit.v]
        credit == AddU64(a2[beneficiary_account].lamports, amount, oc)
        a3 == [a2 EXCEPT ![beneficiary_account].lamports = credit.v]
    IN
    IF ~ser.ok THEN Ret("BorshIoError", a1)
    ELSE IF debit.panic THEN Ret("Panic", a1)
    ELSE IF credit.panic THEN Ret("Panic", a2)
    ELSE Ret("Ok", a3)

\* Escrow release that writes the record back without clearing its amount:
\* the payout that C34 tells apart from the handler's.
escrow_release_keeps_amount(accounts, accts, signers, idata, oc) ==
    IF Len(accts) < 4 THEN Ret("NotEnoughAccountKeys", accounts)
    ELSE
    LET user_profile_account == accts[1]
        escrow_account == accts[2]
        beneficiary_account == accts[3]
        signer_account == accts[4]
        user_profile == accounts[user_profile_account].data
        escrow_data == accounts[escrow_account].data
    IN
    IF accounts[user_profile_account].owner # program_id
    THEN Ret("IncorrectProgramId", accounts)
    ELSE IF accounts[escrow_account].owner # program_id
    THEN Ret("IncorrectProgramId", accounts)
    ELSE IF signer_account \notin signers
    THEN Ret("MissingRequiredSignature", accounts)
    ELSE IF ~try_from_slice(user_profile, UserProfileSize)
    THEN Ret("BorshIoError", accounts)
    ELSE IF ~try_from_slice(escrow_data, EscrowAccountSize)
    THEN Ret("BorshIoError", accounts)
    ELSE IF user_profile[1].v # signer_account
    THEN Ret("InvalidAccountData", accounts)
    ELSE IF current_time < escrow_data[3].v
    THEN Ret("InvalidAccountData", accounts)
    ELSE
    LET amount == escrow_data[2].v
        ser == serialize(escrow_data,
                         <<escrow_data[1].v, amount, escrow_data[3].v>>)
        a1 == [accounts EXCEPT ![escrow_account].data = ser.data]
        debit == SubU64(a1[escrow_account].lamports, amount, oc)
        a2 == [a1 EXCEPT ![escrow_account].lamports = debit.v]
        credit == AddU64(a2[beneficiary_account].lamports, amount, oc)
        a3 == [a2 EXCEPT ![beneficiary_account].lamports = credit.v]
    IN
    IF ~ser.ok THEN Ret("BorshIoError", a1)
    ELSE IF debit.panic THEN Ret("Panic", a1)
    ELSE IF credit.panic THEN Ret("Panic", a2)
    ELSE Ret("Ok", a3)

\* Escrow release with the release-time comparison the wrong way round:
\* the test that C35 tells apart from the handler's.
escrow_release_early(accounts, accts, signers, idata, oc) ==
    IF Len(accts) < 4 THEN Ret("NotEnoughAccountKeys", accounts)
    ELSE
    LET user_profile_account == accts[1]
        escrow_account == accts[2]
        beneficiary_account == accts[3]
        signer_account == accts[4]
        user_profile == accounts[user_profile_account].data
        escrow_data == accounts[escrow_account].data
    IN
    IF accounts[user_profile_account].owner # program_id
    THEN Ret("IncorrectProgramId", accounts)
    ELSE IF accounts[escrow_account].owner # program_id
    THEN Ret("IncorrectProgramId", accounts)
    ELSE IF signer_account \notin signers
    THEN Ret("MissingRequiredSignature", accounts)
    ELSE IF ~try_from_slice(user_profile, UserProfileSize)
    THEN Ret("BorshIoError", accounts)
    ELSE IF ~try_from_slice(escrow_data, EscrowAccountSize)
    THEN Ret("BorshIoError", accounts)
    ELSE IF user_profile[1].v # signer_account
    THEN Ret("InvalidAccountData", accounts)
    ELSE IF current_time > escrow_data[3].v
    THEN Ret("InvalidAccountData", accounts)
    ELSE
    LET amount == escrow_data[2].v
        ser == serialize(escrow_data,
                         <<escrow_data[1].v, 0, escrow_data[3].v>>)
        a1 == [accounts EXCEPT ![escrow_account].data = ser.data]
        debit == SubU64(a1[escrow_account].lamports, amount, oc)
        a2 == [a1 EXCEPT ![escrow_account].lamports = debit.v]
        credit == AddU64(a2[beneficiary_account].lamports, amount, oc)
        a3 == [a2 EXCEPT ![beneficiary_account].lamports = credit.v]
    IN
    IF ~ser.ok THEN Ret("BorshIoError", a1)
    ELSE IF debit.panic THEN Ret("Panic", a1)
    ELSE IF credit.panic THEN Ret("Panic", a2)
    ELSE Ret("Ok", a3)

escrow_release(accounts, accts, signers, idata, oc) ==
    IF Len(accts) < 4 THEN Ret("NotEnoughAccountKeys", accounts)
    ELSE
    LET user_profile_account == accts[1]
        escrow_account == accts[2]
        beneficiary_account == accts[3]
        signer_account == accts[4]
        user_profile == accounts[user_profile_account].data
        escrow_data == accounts[escrow_account].data
    IN
    IF accounts[user_profile_account].owner # program_id
    THEN Ret("IncorrectProgramId", accounts)
    ELSE IF accounts[escrow_account].owner # program_id
    THEN Ret("IncorrectProgramId", accounts)
    ELSE IF signer_account \notin signers
    THEN Ret("MissingRequiredSignature", accounts)
    ELSE IF ~try_from_slice(user_profile, UserProfileSize)
    THEN Ret("BorshIoError", accounts)
    ELSE IF ~try_from_slice(escrow_data, EscrowAccountSize)
    THEN Ret("BorshIoError", accounts)
    ELSE IF user_profile[1].v # signer_account
    THEN Ret("InvalidAccountData", accounts)
    ELSE IF current_time < escrow_data[3].v
    THEN Ret("InvalidAccountData", accounts)
    ELSE
    LET amount == escrow_data[2].v
        ser == serialize(escrow_data,
                         <<escrow_data[1].v, 0, escrow_data[3].v>>)
        a1 == [accounts EXCEPT ![escrow_account].data = ser.data]
        debit == SubU64(a1[escrow_account].lamports, amount, oc)
        a2 == [a1 EXCEPT ![escrow_account].lamports = debit.v]
        credit == AddU64(a2[beneficiary_account].lamports, amount, oc)
        a3 == [a2 EXCEPT ![beneficiary_account].lamports = credit.v]
    IN
    IF ~ser.ok THEN Ret("BorshIoError", a1)
    ELSE IF debit.panic THEN Ret("Panic", a1)
    ELSE IF credit.panic THEN Ret("Panic", a2)
    ELSE Ret("Ok", a3)

vulnerable_token_withdraw(accounts, accts, signers, idata, oc) ==
    IF Len(accts) < 3 THEN Ret("NotEnoughAccountKeys", accounts)
    ELSE
    LET vault_account == accts[1]
        token_account == accts[2]
        authority == accts[3]
        vault_data == accounts[vault_account].data
    IN
    IF authority \notin signers
    THEN Ret("MissingRequiredSignature", accounts)
    ELSE IF ~try_from_slice(vault_data, TokenVaultSize)
    THEN Ret("BorshIoError", accounts)
    ELSE IF vault_data[1].v # authority
    THEN Ret("InvalidAccountData", accounts)
    ELSE Ret("Ok", accounts)

\* The setup of the file's exploit scenario: wallet 1 owns the profile,
\* which names EscrowA; EscrowB belongs to wallet 2.
InitEscrow ==
    /\ \E tb \in {0, current_time + 1},
          amt \in {1, U64_MAX}, lam \in {1, U64_MAX} :
         ledger = [k \in EscrowKeys |->
            CASE k = ProfileKey ->
                   Account(program_id, 1, UserProfile(1, EscrowA, 0))
              [] k = EscrowA ->
                   Account(program_id, lam,
                           EscrowAccount(1, amt, current_time + 1))
              [] k = EscrowB ->
                   Account(program_id, lam, EscrowAccount(2, amt, tb))
              [] k = TokenVaultKey ->
                   Account(program_id, 1, TokenVault(1, TokenA))
              [] OTHER -> Account(system_program, 0, <<>>)]
    /\ call = NoCall
    /\ overflow_checks \in BOOLEAN
    /\ initialized = {}
    /\ logged = <<>>
    /\ inflight = NoFlight
    /\ withdrawals = NoWithdrawals

EscrowRelease ==
    \E accts \in RoleLists(<<{ProfileKey, TokenA}, {EscrowA, EscrowB},
                              Wallets, Wallets>>),
       signers \in SUBSET Wallets :
        Commit("escrow_release", accts, signers, <<>>,
               escrow_release(ledger, accts, signers, <<>>, overflow_checks))

TokenWithdraw ==
    \E accts \in RoleLists(<<{TokenVaultKey, TokenB}, {TokenA, TokenB},
                              Wallets>>),
       signers \in SUBSET Wallets :
        Commit("vulnerable_token_withdraw", accts, signers, <<>>,
               vulnerable_token_withdraw(ledger, accts, signers, <<>>,
                                         overflow_checks))

NextEscrow == EscrowRelease \/ TokenWithdraw

SpecEscrow == InitEscrow /\ [][NextEscrow]_vars

\* C4: escrow release moves no lamports and leaves escrow.amount unchanged
\* unless user_profile.escrow_account is the address of the escrow account
\* supplied and escrow.beneficiary is the address of the beneficiary account
\* supplied, whatever the other checks say.
C4_EscrowRelationsChecked ==
    [][(/\ call'.op = "escrow_release"
        /\ Len(call'.accts) >= 4
        /\ try_from_slice(ledger[call'.accts[1]].data, UserProfileSize)
        /\ try_from_slice(ledger[call'.accts[2]].data, EscrowAccountSize)
        /\ \/ ledger[call'.accts[1]].data[2].v # call'.accts[2]
           \/ ledger[call'.accts[2]].data[1].v # call'.accts[3])
       => ledger' = ledger]_vars

\* C5: token vault withdraw succeeds only when the token account supplied
\* has the address stored in vault_data.token_account.
C5_TokenAccountChecked ==
    (call.op = "vulnerable_token_withdraw" /\ call.result = "Ok")
        => call.accts[2] = ledger[call.accts[1]].data[2].v

(***************************************************************************)
(* pda_issues.rs                                                           *)
(***************************************************************************)
\* The byte strings used as seeds, as seed codes.
user_data_seed == 1

vault_seed == 2

malicious_seeds == 3

Bumps == 0..MaxBump

\* Every seed (a seed code, a wallet key or a bump) is below SeedBase.
SeedBase == MaxBump + NumWallets + 4

\* The digest of the seeds and the program id: an injective stand-in for
\* SHA-256 over seeds ++ program_id ++ "ProgramDerivedAddress".
RECURSIVE sha256(_, _)
sha256(seeds, pid) ==
    IF seeds = <<>> THEN (IF pid = program_id THEN 1 ELSE 2)
    ELSE sha256(SubSeq(seeds, 1, Len(seeds) - 1), pid) * SeedBase
             + seeds[Len(seeds)] + 1

\* Whether a digest is a point of the ed25519 curve (and so no valid PDA).
is_on_curve(digest) == digest % 3 = 1

\* Pubkey::create_program_address: the digest as an address, or
\* PubkeyError::InvalidSeeds when the digest is on the curve.
create_program_address(seeds, pid) ==
    LET digest == sha256(seeds, pid)
    IN  [ok |-> ~is_on_curve(digest), address |-> digest]

\* Pubkey::find_program_address: the first bump, from the largest down, for
\* which create_program_address(seeds ++ [bump]) succeeds.
RECURSIVE try_find_program_address(_, _, _)
try_find_program_address(seeds, pid, bump) ==
    LET pda == create_program_address(Append(seeds, bump), pid)
    IN  IF pda.ok THEN [ok |-> TRUE, address |-> pda.address, bump |-> bump]
        ELSE IF bump = 0 THEN [ok |-> FALSE, address |-> 0, bump |-> 0]
        ELSE try_find_program_address(seeds, pid, bump - 1)

find_program_address(seeds, pid) ==
    try_find_program_address(seeds, pid, MaxBump)

\* UserData { owner: Pubkey, balance: u64 }
PdaUserData(owner, balance) ==
    <<Cell(PubkeyBytes, owner), Cell(U64Bytes, balance)>>

PdaUserDataSize == PubkeyBytes + U64Bytes

\* The PDA of wallet 1 under the program's seeds.
UserPda == find_program_address(<<user_data_seed, 1>>, program_id).address

\* A PDA of the same program derived from other seeds (exploit scenario).
OtherPda == find_program_address(<<malicious_seeds, 2>>, program_id).address

\* The addresses create_program_address yields for the "vault" seed.
VaultPdas ==
    {create_program_address(<<vault_seed, b>>, program_id).address :
        b \in {c \in Bumps :
                 create_program_address(<<vault_seed, c>>, program_id).ok}}

PdaKeys == Wallets \cup {UserPda, OtherPda} \cup VaultPdas

pda_withdraw(accounts, accts, signers, idata, oc) ==
    IF Len(accts) < 3 THEN Ret("NotEnoughAccountKeys", accounts)
    ELSE
    LET user_account == accts[1]
        pda_account == accts[2]
        recipient_account == accts[3]
        user_data == accounts[pda_account].data
    IN
    IF user_account \notin signers
    THEN Ret("MissingRequiredSignature", accounts)
    ELSE IF accounts[pda_account].owner # program_id
    THEN Ret("IncorrectProgramId", accounts)
    ELSE IF ~try_from_slice(user_data, PdaUserDataSize)
    THEN Ret("BorshIoError", accounts)
    ELSE IF user_data[1].v # user_account
    THEN Ret("InvalidAccountData", accounts)
    ELSE IF Len(idata) < 1 THEN Ret("Panic", accounts)
    ELSE
    LET amount == idata[1]
        balance == SubU64(user_data[2].v, amount, oc)
        ser == serialize(user_data, <<user_data[1].v, balance.v>>)
        a1 == [accounts EXCEPT ![pda_account].data = ser.data]
        debit == SubU64(a1[pda_account].lamports, amount, oc)
        a2 == [a1 EXCEPT ![pda_account].lamports = debit.v]
        credit == AddU64(a2[recipient_account].lamports, amount, oc)
        a3 == [a2 EXCEPT ![recipient_account].lamports = credit.v]
    IN
    IF user_data[2].v < amount THEN Ret("InsufficientFunds", accounts)
    ELSE IF balance.panic THEN Ret("Panic", accounts)
    ELSE IF ~ser.ok THEN Ret("BorshIoError", a1)
    ELSE IF debit.panic THEN Ret("Panic", a1)
    ELSE IF credit.panic THEN Ret("Panic", a2)
    ELSE Ret("Ok", a3)

vulnerable_with_bump(accounts, accts, signers, idata, oc) ==
    IF Len(accts) < 1 THEN Ret("NotEnoughAccountKeys", accounts)
    ELSE IF Len(idata) < 1 THEN Ret("Panic", accounts)
    ELSE
    LET pda_account == accts[1]
        bump == idata[1]
        pda == create_program_address(<<vault_seed, bump>>, program_id)
    IN
    IF ~pda.ok THEN Ret("InvalidSeeds", accounts)
    ELSE IF pda.address # pda_account THEN Ret("InvalidSeeds", accounts)
    ELSE Ret("Ok", accounts)

InitPda ==
    /\ \E bal \in {1, U64_MAX}, lam \in {1, U64_MAX} :
         ledger = [k \in PdaKeys |->
            CASE k = UserPda ->
                   Account(program_id, lam, PdaUserData(1, bal))
              [] k = OtherPda ->
                   Account(program_id, lam, PdaUserData(1, bal))
              [] k \in VaultPdas -> Account(program_id, 1, <<>>)
              [] OTHER -> Account(system_program, 0, <<>>)]
    /\ call = NoCall
    /\ overflow_checks \in BOOLEAN
    /\ initialized = {}
    /\ logged = <<>>
    /\ inflight = NoFlight
    /\ withdrawals = NoWithdrawals

\* The account in the pda_account position is one of the two program-owned
\* records or a wallet, which the system program owns.
PdaWithdraw ==
    \E accts \in RoleLists(<<Wallets, {UserPda, OtherPda, 1}, {2}>>),
       signers \in SUBSET Wallets,
       idata \in AmountData :
        Commit("pda_withdraw", accts, signers, idata,
               pda_withdraw(ledger, accts, signers, idata, overflow_checks))

WithBump ==
    \E accts \in RoleLists(<<VaultPdas \cup {UserPda}>>),
       idata \in {<<>>} \cup {<<b>> : b \in Bumps} :
        Commit("vulnerable_with_bump", accts, {}, idata,
               vulnerable_with_bump(ledger, accts, {}, idata,
                                    overflow_checks))

NextPda == PdaWithdraw \/ WithBump

SpecPda == InitPda /\ [][NextPda]_vars

\* C6: PDA withdrawal recomputes the address derived from the seeds
\* ("user_data", user_account.key) and program_id and changes nothing when
\* pda_account is not at that address, also when pda_account is owned by the
\* program and its stored owner field is the signer.
C6_PdaDerivationChecked ==
    [][(/\ call'.op = "pda_withdraw"
        /\ Len(call'.accts) >= 3
        /\ find_program_address(<<user_data_seed, call'.accts[1]>>,
                                program_id).address # call'.accts[2])
       => ledger' = ledger]_vars

\* C7: the bump-taking PDA check accepts no bump other than the canonical
\* bump its own search returns, so only the canonical address passes it.
C7_OnlyCanonicalBump ==
    (call.op = "vulnerable_with_bump" /\ call.result = "Ok")
        => /\ call.idata[1] =
                find_program_address(<<vault_seed>>, program_id).bump
           /\ call.accts[1] =
                find_program_address(<<vault_seed>>, program_id).address

\* C8: the verdict of the derivation check on a given pda_account depends
\* on the seeds and program_id only: two calls on the same pda_account get
\* the same verdict whatever bump the caller supplies.
C8_VerdictIndependentOfBump ==
    [][(/\ call.op = "vulnerable_with_bump"
        /\ call'.op = "vulnerable_with_bump"
        /\ call.accts = call'.accts
        /\ Len(call.idata) >= 1
        /\ Len(call'.idata) >= 1)
       => ((call.result = "Ok") <=> (call'.result = "Ok"))]_vars

(***************************************************************************)
(* type_confusion.rs                                                       *)
(***************************************************************************)
\* UserAccount { owner: Pubkey, balance: u64, rewards: u64 }
UserAccount(owner, balance, rewards) ==
    <<Cell(PubkeyBytes, owner), Cell(U64Bytes, balance),
      Cell(U64Bytes, rewards)>>

UserAccountSize == PubkeyBytes + U64Bytes + U64Bytes

\* AdminAccount { owner: Pubkey, balance: u64, admin_level: u64 }
AdminAccount(owner, balance, admin_level) ==
    <<Cell(PubkeyBytes, owner), Cell(U64Bytes, balance),
      Cell(U64Bytes, admin_level)>>

AdminAccountSize == PubkeyBytes + U64Bytes + U64Bytes

\* `if admin_data.admin_level < 5`
MinAdminLevel == 5

\* The account created as a UserAccount and the one created as an
\* AdminAccount.
UserAccountKey == NumWallets + 1

AdminAccountKey == NumWallets + 2

TypeKeys == 1..AdminAccountKey

\* u64::saturating_sub
saturating_sub(x, y) == IF x >= y THEN x - y ELSE 0

withdraw_user(accounts, accts, signers, idata, oc) ==
    IF Len(accts) < 2 THEN Ret("NotEnoughAccountKeys", accounts)
    ELSE
    LET user_account_info == accts[1]
        owner_account == accts[2]
        user_data == accounts[user_account_info].data
    IN
    IF accounts[user_account_info].owner # program_id
    THEN Ret("IncorrectProgramId", accounts)
    ELSE IF owner_account \notin signers
    THEN Ret("MissingRequiredSignature", accounts)
    ELSE IF ~try_from_slice(user_data, UserAccountSize)
    THEN Ret("BorshIoError", accounts)
    ELSE IF user_data[1].v # owner_account
    THEN Ret("InvalidAccountData", accounts)
    ELSE IF Len(idata) < 1 THEN Ret("Panic", accounts)
    ELSE
    LET amount == idata[1]
        available == AddU64(user_data[2].v, user_data[3].v, oc)
        ser == serialize(user_data,
                         <<user_data[1].v,
                           saturating_sub(user_data[2].v, amount),
                           user_data[3].v>>)
        a1 == [accounts EXCEPT ![user_account_info].data = ser.data]
    IN
    IF available.panic THEN Ret("Panic", accounts)
    ELSE IF available.v < amount THEN Ret("InsufficientFunds", accounts)
    ELSE IF ~ser.ok THEN Ret("BorshIoError", a1)
    ELSE Ret("Ok", a1)

admin_action(accounts, accts, signers, idata, oc) ==
    IF Len(accts) < 2 THEN Ret("NotEnoughAccountKeys", accounts)
    ELSE
    LET admin_account_info == accts[1]
        admin_signer == accts[2]
        admin_data == accounts[admin_account_info].data
    IN
    IF accounts[admin_account_info].owner # program_id
    THEN Ret("IncorrectProgramId", accounts)
    ELSE IF admin_signer \notin signers
    THEN Ret("MissingRequiredSignature", accounts)
    ELSE IF ~try_from_slice(admin_data, AdminAccountSize)
    THEN Ret("BorshIoError", accounts)
    ELSE IF admin_data[1].v # admin_signer
    THEN Ret("InvalidAccountData", accounts)
    ELSE IF admin_data[3].v < MinAdminLevel
    THEN Ret("InvalidAccountData", accounts)
    ELSE Ret("Ok", accounts)

InitType ==
    /\ \E rewards \in {1, MinAdminLevel}, admin_level \in {1, MinAdminLevel},
          ub \in {1, U64_MAX}, ab \in {1, U64_MAX} :
         ledger = [k \in TypeKeys |->
            CASE k = UserAccountKey ->
                   Account(program_id, 1, UserAccount(1, ub, rewards))
              [] k = AdminAccountKey ->
                   Account(program_id, 1, AdminAccount(2, ab, admin_level))
              [] OTHER -> Account(system_program, 1, <<>>)]
    /\ call = NoCall
    /\ overflow_checks \in BOOLEAN
    /\ initialized = {}
    /\ logged = <<>>
    /\ inflight = NoFlight
    /\ withdrawals = NoWithdrawals

WithdrawUser ==
    \E accts \in RoleLists(<<TypeKeys, Wallets>>),
       signers \in SUBSET Wallets, idata \in AmountData :
        Commit("withdraw_user", accts, signers, idata,
               withdraw_user(ledger, accts, signers, idata, overflow_checks))

AdminAction ==
    \E accts \in RoleLists(<<TypeKeys, Wallets>>),
       signers \in SUBSET Wallets :
        Commit("admin_action", accts, signers, <<>>,
               admin_action(ledger, accts, signers, <<>>, overflow_checks))

NextType == WithdrawUser \/ AdminAction

SpecType == InitType /\ [][NextType]_vars

\* C9: withdraw_user accepts no account written as AdminAccount and
\* admin_action accepts no account written as UserAccount: the schema is
\* told apart before the remaining fields are read.
C9_SchemaChecked ==
    /\ (call.op = "withdraw_user" /\ call.result = "Ok")
          => call.accts[1] # AdminAccountKey
    /\ (call.op = "admin_action" /\ call.result = "Ok")
          => call.accts[1] # UserAccountKey

(***************************************************************************)
(* reinitialization.rs                                                     *)
(***************************************************************************)
U8Bytes == 1

\* VaultConfig { authority: Pubkey, total_deposited: u64, fee_percentage: u8 }
VaultConfig(authority, total_deposited, fee_percentage) ==
    <<Cell(PubkeyBytes, authority), Cell(U64Bytes, total_deposited),
      Cell(U8Bytes, fee_percentage)>>

VaultConfigSize == PubkeyBytes + U64Bytes + U8Bytes

\* A zeroed account of VaultConfig's size, and a zeroed account one byte
\* shorter (an account is created with any size its creator asks for).
ConfigKey == NumWallets + 1

ShortConfigKey == NumWallets + 2

ReinitKeys == 1..ShortConfigKey

\* The fee percentages of the file's exploit scenario.
Fees == {1, 99}

initialize(accounts, accts, signers, idata, oc) ==
    IF Len(accts) < 2 THEN Ret("NotEnoughAccountKeys", accounts)
    ELSE
    LET vault_account == accts[1]
        authority_account == accts[2]
    IN
    IF accounts[vault_account].owner # program_id
    THEN Ret("IncorrectProgramId", accounts)
    ELSE IF authority_account \notin signers
    THEN Ret("MissingRequiredSignature", accounts)
    ELSE IF Len(idata) < 1 THEN Ret("Panic", accounts)
    ELSE
    LET fee_percentage == idata[1]
        ser == serialize(accounts[vault_account].data,
                         <<authority_account, 0, fee_percentage>>)
        a1 == [accounts EXCEPT ![vault_account].data = ser.data]
    IN
    IF ~ser.ok THEN Ret("BorshIoError", a1)
    ELSE Ret("Ok", a1)

deposit(accounts, accts, signers, idata, oc) ==
    IF Len(accts) < 2 THEN Ret("NotEnoughAccountKeys", accounts)
    ELSE
    LET vault_account == accts[1]
        user_account == accts[2]
        vault_config == accounts[vault_account].data
    IN
    IF accounts[vault_account].owner # program_id
    THEN Ret("IncorrectProgramId", accounts)
    ELSE IF user_account \notin signers
    THEN Ret("MissingRequiredSignature", accounts)
    ELSE IF ~try_from_slice(vault_config, VaultConfigSize)
    THEN Ret("BorshIoError", accounts)
    ELSE IF Len(idata) < 1 THEN Ret("Panic", accounts)
    ELSE
    LET amount == idata[1]
        total == AddU64(vault_config[2].v, amount, oc)
        ser == serialize(vault_config,
                         <<vault_config[1].v, total.v, vault_config[3].v>>)
        a1 == [accounts EXCEPT ![vault_account].data = ser.data]
        debit == SubU64(a1[user_account].lamports, amount, oc)
        a2 == [a1 EXCEPT ![user_account].lamports = debit.v]
        credit == AddU64(a2[vault_account].lamports, amount, oc)
        a3 == [a2 EXCEPT ![vault_account].lamports = credit.v]
    IN
    IF total.panic THEN Ret("Panic", accounts)
    ELSE IF ~ser.ok THEN Ret("BorshIoError", a1)
    ELSE IF debit.panic THEN Ret("Panic", a1)
    ELSE IF credit.panic THEN Ret("Panic", a2)
    ELSE Ret("Ok", a3)

InitReinit ==
    /\ ledger = [k \in ReinitKeys |->
          CASE k = ConfigKey -> Account(program_id, 1, VaultConfig(0, 0, 0))
            [] k = ShortConfigKey ->
                 Account(program_id, 1,
                         <<Cell(PubkeyBytes, 0), Cell(U64Bytes, 0)>>)
            [] OTHER -> Account(system_program, U64_MAX, <<>>)]
    /\ call = NoCall
    /\ overflow_checks \in BOOLEAN
    /\ initialized = {}
    /\ logged = <<>>
    /\ inflight = NoFlight
    /\ withdrawals = NoWithdrawals

Initialize ==
    \E accts \in RoleLists(<<{ConfigKey, ShortConfigKey}, Wallets>>),
       signers \in SUBSET Wallets,
       idata \in {<<>>} \cup {<<fee>> : fee \in Fees} :
        Commit("initialize", accts, signers, idata,
               initialize(ledger, accts, signers, idata, overflow_checks))

Deposit ==
    \E accts \in RoleLists(<<{ConfigKey}, {1}>>),
       signers \in SUBSET Wallets, idata \in AmountData :
        Commit("deposit", accts, signers, idata,
               deposit(ledger, accts, signers, idata, overflow_checks))

NextReinit == Initialize \/ Deposit

SpecReinit == InitReinit /\ [][NextReinit]_vars

\* Whether a result is an error value returned by the handler.
IsErr(result) == result \notin {"none", "Ok", "Panic"}

\* C1: a call that returns an error leaves the data and the lamports of
\* every account as they were before the call: no handler fails after it has
\* written a record or debited an account.
C1_ErrorLeavesLedgerUnchanged ==
    [][IsErr(call'.result) => ledger' = ledger]_vars

\* C10: once vault initialize has succeeded on an account, a later
\* initialize of that account, by whichever signer, leaves its authority,
\* total_deposited and fee_percentage as they were.
C10_InitializeOnce ==
    [][(/\ call'.op = "initialize"
        /\ Len(call'.accts) >= 2
        /\ call'.accts[1] \in initialized)
       => ledger'[call'.accts[1]].data = ledger[call'.accts[1]].data]_vars

\* bool
BoolBytes == 1

\* Whether a stored record carries the is_initialized flag, set: the record
\* layout that has the flag opens with a one-byte bool before the authority.
is_initialized(data) ==
    /\ Len(data) = Len(VaultConfig(0, 0, 0)) + 1
    /\ data[1].w = BoolBytes
    /\ data[1].v = 1

\* C11: an account on which vault initialize has succeeded holds a record
\* whose initialized flag is set, in that state and in every state reachable
\* afterwards by initialize and deposit calls.
C11_InitializedFlagStays ==
    \A k \in initialized : is_initialized(ledger[k].data)

\* C12: deposit on a vault account on which initialize has never succeeded
\* changes neither the vault's data nor any lamport balance.
C12_DepositNeedsInitialized ==
    [][(/\ call'.op = "deposit"
        /\ Len(call'.accts) >= 2
        /\ call'.accts[1] \notin initialized)
       => ledger' = ledger]_vars

(***************************************************************************)
(* rent_exemption.rs                                                       *)
(***************************************************************************)
MetadataBytes == 32

\* UserData { owner: Pubkey, balance: u64, metadata: [u8; 32] }
RentUserData(owner, balance, metadata) ==
    <<Cell(PubkeyBytes, owner), Cell(U64Bytes, balance),
      Cell(MetadataBytes, metadata)>>

RentUserDataSize == PubkeyBytes + U64Bytes + MetadataBytes

\* Rent::minimum_balance: the storage overhead of an account plus its data
\* length, priced per byte; the price is scaled so that the minimum for a
\* UserData account lies inside the scaled u64 range.
ACCOUNT_STORAGE_OVERHEAD == 128

BytesPerLamport == 50

minimum_balance(data_len_) ==
    (ACCOUNT_STORAGE_OVERHEAD + data_len_) \div BytesPerLamport

\* Rent::is_exempt
is_exempt(lamports, data_len_) == lamports >= minimum_balance(data_len_)

RentDataKey == NumWallets + 1

RentKeys == 1..RentDataKey

initialize_user_data(accounts, accts, signers, idata, oc) ==
    IF Len(accts) < 2 THEN Ret("NotEnoughAccountKeys", accounts)
    ELSE
    LET user_data_account == accts[1]
        user_account == accts[2]
    IN
    IF accounts[user_data_account].owner # program_id
    THEN Ret("IncorrectProgramId", accounts)
    ELSE IF user_account \notin signers
    THEN Ret("MissingRequiredSignature", accounts)
    ELSE
    LET ser == serialize(accounts[user_data_account].data,
                         <<user_account, 0, 0>>)
        a1 == [accounts EXCEPT ![user_data_account].data = ser.data]
    IN
    IF ~ser.ok THEN Ret("BorshIoError", a1)
    ELSE Ret("Ok", a1)

\* withdraw_all with the recipient bound only where it is used, after the
\* checks: the binding that C24 tells apart from the handler's.
withdraw_all_late_binding(accounts, accts, signers, idata, oc) ==
    IF Len(accts) < 2 THEN Ret("NotEnoughAccountKeys", accounts)
    ELSE
    LET user_data_account == accts[1]
        user_account == accts[2]
        user_data == accounts[user_data_account].data
    IN
    IF accounts[user_data_account].owner # program_id
    THEN Ret("IncorrectProgramId", accounts)
    ELSE IF user_account \notin signers
    THEN Ret("MissingRequiredSignature", accounts)
    ELSE IF ~try_from_slice(user_data, RentUserDataSize)
    THEN Ret("BorshIoError", accounts)
    ELSE IF user_data[1].v # user_account
    THEN Ret("InvalidAccountData", accounts)
    ELSE IF Len(accts) < 3 THEN Ret("NotEnoughAccountKeys", accounts)
    ELSE
    LET recipient_account == accts[3]
        balance == accounts[user_data_account].lamports
        a1 == [accounts EXCEPT ![user_data_account].lamports = 0]
        credit == AddU64(a1[recipient_account].lamports, balance, oc)
        a2 == [a1 EXCEPT ![recipient_account].lamports = credit.v]
    IN
    IF credit.panic THEN Ret("Panic", a1)
    ELSE Ret("Ok", a2)

withdraw_all(accounts, accts, signers, idata, oc) ==
    IF Len(accts) < 3 THEN Ret("NotEnoughAccountKeys", accounts)
    ELSE
    LET user_data_account == accts[1]
        user_account == accts[2]
        recipient_account == accts[3]
        user_data == accounts[user_data_account].data
    IN
    IF accounts[user_data_account].owner # program_id
    THEN Ret("IncorrectProgramId", accounts)
    ELSE IF user_account \notin signers
    THEN Ret("MissingRequiredSignature", accounts)
    ELSE IF ~try_from_slice(user_data, RentUserDataSize)
    THEN Ret("BorshIoError", accounts)
    ELSE IF user_data[1].v # user_account
    THEN Ret("InvalidAccountData", accounts)
    ELSE
    LET balance == accounts[user_data_account].lamports
        a1 == [accounts EXCEPT ![user_data_account].lamports = 0]
        credit == AddU64(a1[recipient_account].lamports, balance, oc)
        a2 == [a1 EXCEPT ![recipient_account].lamports = credit.v]
    IN
    IF credit.panic THEN Ret("Panic", a1)
    ELSE Ret("Ok", a2)

InitRent ==
    /\ \E lam \in {1, U64_MAX}, wl \in {0, 1} :
         ledger = [k \in RentKeys |->
            IF k = RentDataKey
            THEN Account(program_id, lam, RentUserData(0, 0, 0))
            ELSE Account(system_program, wl, <<>>)]
    /\ call = NoCall
    /\ overflow_checks \in BOOLEAN
    /\ initialized = {}
    /\ logged = <<>>
    /\ inflight = NoFlight
    /\ withdrawals = NoWithdrawals

RentInitialize ==
    \E accts \in RoleLists(<<{RentDataKey}, Wallets>>),
       signers \in SUBSET Wallets :
        Commit("initialize", accts, signers, <<>>,
               initialize_user_data(ledger, accts, signers, <<>>,
                                    overflow_checks))

WithdrawAll ==
    \E accts \in RoleLists(<<{RentDataKey}, Wallets,
                             Wallets \cup {RentDataKey}>>),
       signers \in SUBSET Wallets :
        Commit("withdraw_all", accts, signers, <<>>,
               withdraw_all(ledger, accts, signers, <<>>, overflow_checks))

NextRent == RentInitialize \/ WithdrawAll

SpecRent == InitRent /\ [][NextRent]_vars

\* C13: user-data initialize writes no record into an account whose
\* lamport balance is below the minimum balance for its data length.
C13_InitializeNeedsRentExempt ==
    [][(/\ call'.op = "initialize"
        /\ Len(call'.accts) >= 2
        /\ ~is_exempt(ledger[call'.accts[1]].lamports,
                      data_len(ledger[call'.accts[1]].data)))
       => ledger'[call'.accts[1]].data = ledger[call'.accts[1]].data]_vars

\* C14: a withdrawal from an initialized user_data_account that holds at
\* least the minimum balance for its data length leaves it holding at least
\* that minimum.
C14_WithdrawKeepsRentExempt ==
    [][(/\ call'.op = "withdraw_all"
        /\ Len(call'.accts) >= 3
        /\ call'.accts[1] \in initialized
        /\ is_exempt(ledger[call'.accts[1]].lamports,
                     data_len(ledger[call'.accts[1]].data)))
       => is_exempt(ledger'[call'.accts[1]].lamports,
                    data_len(ledger'[call'.accts[1]].data))]_vars

\* C15: a successful withdrawal credits the recipient with the balance of
\* the user_data_account less the minimum balance, saturating at 0.
C15_WithdrawableIsSaturatingSub ==
    [][(/\ call'.op = "withdraw_all"
        /\ call'.result = "Ok"
        /\ call'.accts[3] # call'.accts[1])
       => ledger'[call'.accts[3]].lamports =
            (ledger[call'.accts[3]].lamports
             + saturating_sub(ledger[call'.accts[1]].lamports,
                   minimum_balance(data_len(ledger[call'.accts[1]].data))))
            % (U64_MAX + 1)]_vars

(***************************************************************************)
(* arithmetic_errors.rs                                                    *)
(***************************************************************************)
I64_MAX == 2^(WordBits - 1) - 1

I64_MIN == -(2^(WordBits - 1))

\* i64 `x - y`: panics when the build has overflow checks, wraps otherwise.
SubI64(x, y, oc) ==
    IF x - y >= I64_MIN /\ x - y <= I64_MAX
    THEN [panic |-> FALSE, v |-> x - y]
    ELSE IF oc THEN [panic |-> TRUE, v |-> x]
    ELSE [panic |-> FALSE,
          v |-> ((x - y - I64_MIN + 2 * (U64_MAX + 1)) % (U64_MAX + 1))
                + I64_MIN]

\* `x as u64` of an i64: the same bits read as an unsigned word.
as_u64(x) == (x + U64_MAX + 1) % (U64_MAX + 1)

\* u64 `x * y`: panics when the build has overflow checks, wraps otherwise.
MulU64(x, y, oc) ==
    IF x * y <= U64_MAX THEN [panic |-> FALSE, v |-> x * y]
    ELSE IF oc THEN [panic |-> TRUE, v |-> x]
    ELSE [panic |-> FALSE, v |-> (x * y) % (U64_MAX + 1)]

\* StakingPool { total_staked: u64, reward_rate: u64, last_update: i64 }
StakingPool(total_staked, reward_rate, last_update) ==
    <<Cell(U64Bytes, total_staked), Cell(U64Bytes, reward_rate),
      Cell(I64Bytes, last_update)>>

StakingPoolSize == U64Bytes + U64Bytes + I64Bytes

\* UserStake { amount: u64, last_claim: i64 }
UserStake(amount, last_claim) ==
    <<Cell(U64Bytes, amount), Cell(I64Bytes, last_claim)>>

UserStakeSize == U64Bytes + I64Bytes

\* The placeholder timestamp of calculate_rewards (1000000_i64), scaled
\* into the signed word.
rewards_current_time == 2^(WordBits - 2)

PoolKey == NumWallets + 1

StakeKey == NumWallets + 2

ClockKey == NumWallets + 3

ArithKeys == 1..ClockKey

\* A result that carries what the call logged.
RetLog(r, a, l) == [result |-> r, accounts |-> a, logged |-> l]

stake(accounts, accts, signers, idata, oc) ==
    IF Len(accts) < 3 THEN Ret("NotEnoughAccountKeys", accounts)
    ELSE
    LET pool_account == accts[1]
        user_stake_account == accts[2]
        user_account == accts[3]
        pool_data == accounts[pool_account].data
        user_data == accounts[user_stake_account].data
    IN
    IF user_account \notin signers
    THEN Ret("MissingRequiredSignature", accounts)
    ELSE IF ~try_from_slice(pool_data, StakingPoolSize)
    THEN Ret("BorshIoError", accounts)
    ELSE IF ~try_from_slice(user_data, UserStakeSize)
    THEN Ret("BorshIoError", accounts)
    ELSE IF Len(idata) < 1 THEN Ret("Panic", accounts)
    ELSE
    LET amount == idata[1]
        total == AddU64(pool_data[1].v, amount, oc)
        staked == AddU64(user_data[1].v, amount, oc)
        ser1 == serialize(pool_data,
                          <<total.v, pool_data[2].v, pool_data[3].v>>)
        a1 == [accounts EXCEPT ![pool_account].data = ser1.data]
        ser2 == serialize(a1[user_stake_account].data,
                          <<staked.v, user_data[2].v>>)
        a2 == [a1 EXCEPT ![user_stake_account].data = ser2.data]
    IN
    IF total.panic \/ staked.panic THEN Ret("Panic", accounts)
    ELSE IF ~ser1.ok THEN Ret("BorshIoError", a1)
    ELSE IF ~ser2.ok THEN Ret("BorshIoError", a2)
    ELSE Ret("Ok", a2)

\* calculate_rewards that records the claim time in the user's stake
\* record: the write that C36 tells apart from the handler's.
calculate_rewards_updates_claim(accounts, accts, signers, idata, oc) ==
    IF Len(accts) < 4 THEN Ret("NotEnoughAccountKeys", accounts)
    ELSE
    LET pool_account == accts[1]
        user_stake_account == accts[2]
        user_account == accts[3]
        pool_data == accounts[pool_account].data
        user_data == accounts[user_stake_account].data
    IN
    IF user_account \notin signers
    THEN Ret("MissingRequiredSignature", accounts)
    ELSE IF ~try_from_slice(pool_data, StakingPoolSize)
    THEN Ret("BorshIoError", accounts)
    ELSE IF ~try_from_slice(user_data, UserStakeSize)
    THEN Ret("BorshIoError", accounts)
    ELSE
    LET time_elapsed == SubI64(rewards_current_time, user_data[2].v, oc)
        time_elapsed_u64 == as_u64(time_elapsed.v)
        reward_per_second == pool_data[2].v
        base_reward == MulU64(time_elapsed_u64, reward_per_second, oc)
    IN
    IF time_elapsed.panic \/ base_reward.panic THEN Ret("Panic", accounts)
    ELSE IF pool_data[1].v = 0 THEN Ret("Panic", accounts)
    ELSE
    LET user_share == user_data[1].v \div pool_data[1].v
        user_reward == MulU64(base_reward.v, user_share, oc)
    IN
    IF user_reward.panic THEN Ret("Panic", accounts)
    ELSE RetLog("Ok",
                [accounts EXCEPT ![user_stake_account].data =
                     UserStake(user_data[1].v, rewards_current_time)],
                <<user_reward.v>>)

calculate_rewards(accounts, accts, signers, idata, oc) ==
    IF Len(accts) < 4 THEN Ret("NotEnoughAccountKeys", accounts)
    ELSE
    LET pool_account == accts[1]
        user_stake_account == accts[2]
        user_account == accts[3]
        pool_data == accounts[pool_account].data
        user_data == accounts[user_stake_account].data
    IN
    IF user_account \notin signers
    THEN Ret("MissingRequiredSignature", accounts)
    ELSE IF ~try_from_slice(pool_data, StakingPoolSize)
    THEN Ret("BorshIoError", accounts)
    ELSE IF ~try_from_slice(user_data, UserStakeSize)
    THEN Ret("BorshIoError", accounts)
    ELSE
    LET time_elapsed == SubI64(rewards_current_time, user_data[2].v, oc)
        time_elapsed_u64 == as_u64(time_elapsed.v)
        reward_per_second == pool_data[2].v
        base_reward == MulU64(time_elapsed_u64, reward_per_second, oc)
    IN
    IF time_elapsed.panic \/ base_reward.panic THEN Ret("Panic", accounts)
    ELSE IF pool_data[1].v = 0 THEN Ret("Panic", accounts)
    ELSE
    LET user_share == user_data[1].v \div pool_data[1].v
        user_reward == MulU64(base_reward.v, user_share, oc)
    IN
    IF user_reward.panic THEN Ret("Panic", accounts)
    ELSE RetLog("Ok", accounts, <<user_reward.v>>)

InitArith ==
    /\ \E total_staked \in {0, 2, U64_MAX - 1}, reward_rate \in {1, U64_MAX},
          amount \in {1, 2},
          last_claim \in {0, rewards_current_time - 1,
                          rewards_current_time + 1} :
         ledger = [k \in ArithKeys |->
            CASE k = PoolKey ->
                   Account(program_id, 1,
                           StakingPool(total_staked, reward_rate, 0))
              [] k = StakeKey ->
                   Account(program_id, 1, UserStake(amount, last_claim))
              [] OTHER -> Account(system_program, 1, <<>>)]
    /\ call = NoCall
    /\ overflow_checks \in BOOLEAN
    /\ initialized = {}
    /\ logged = <<>>
    /\ inflight = NoFlight
    /\ withdrawals = NoWithdrawals

Stake ==
    \E accts \in RoleLists(<<{PoolKey}, {StakeKey, PoolKey}, Wallets>>),
       signers \in SUBSET Wallets, idata \in AmountData :
        Commit("stake", accts, signers, idata,
               stake(ledger, accts, signers, idata, overflow_checks))

CalculateRewards ==
    \E accts \in RoleLists(<<{PoolKey}, {StakeKey}, Wallets, {ClockKey}>>),
       signers \in SUBSET Wallets :
        Commit("calculate_rewards", accts, signers, <<>>,
               calculate_rewards(ledger, accts, signers, <<>>,
                                 overflow_checks))

NextArith == Stake \/ CalculateRewards

SpecArith == InitArith /\ [][NextArith]_vars

\* C16: a stake whose amount added to pool.total_staked or to user.amount
\* exceeds the largest unsigned word leaves the pool record and the user
\* stake record as they were: no wrapped sum is stored.
C16_StakeOverflowRejected ==
    [][(/\ call'.op = "stake"
        /\ Len(call'.accts) >= 3
        /\ Len(call'.idata) >= 1
        /\ try_from_slice(ledger[call'.accts[1]].data, StakingPoolSize)
        /\ try_from_slice(ledger[call'.accts[2]].data, UserStakeSize)
        /\ \/ ledger[call'.accts[1]].data[1].v + call'.idata[1] > U64_MAX
           \/ ledger[call'.accts[2]].data[1].v + call'.idata[1] > U64_MAX)
       => ledger' = ledger]_vars

\* C17: when the elapsed time is not negative, total_staked is not 0 and
\* the products fit the unsigned word, the reward a successful call computes
\* is floor((base_reward * user.amount) / total_staked).
C17_RewardMultipliesFirst ==
    (call.op = "calculate_rewards" /\ call.result = "Ok") =>
        LET pool_data == ledger[call.accts[1]].data
            user_data == ledger[call.accts[2]].data
            elapsed == rewards_current_time - user_data[2].v
            base_reward == elapsed * pool_data[2].v
        IN  (/\ elapsed >= 0
             /\ base_reward <= U64_MAX
             /\ base_reward * user_data[1].v <= U64_MAX
             /\ pool_data[1].v # 0)
            => logged = <<(base_reward * user_data[1].v) \div pool_data[1].v>>

\* C18: a reward call that passes the signer check and decodes both records
\* with pool.total_staked = 0 returns the error DivisionByZero.
C18_ZeroPoolIsDivisionByZero ==
    (/\ call.op = "calculate_rewards"
     /\ Len(call.accts) >= 4
     /\ call.accts[3] \in call.signers
     /\ ledger[call.accts[1]].data[1].v = 0)
    => call.result = "DivisionByZero"

\* C19: a reward call in which time_elapsed * reward_rate or
\* base_reward * user.amount exceeds the unsigned word computes no reward.
C19_RewardOverflowRejected ==
    (/\ call.op = "calculate_rewards"
     /\ Len(call.accts) >= 4)
    => LET pool_data == ledger[call.accts[1]].data
           user_data == ledger[call.accts[2]].data
           elapsed == rewards_current_time - user_data[2].v
       IN  (/\ elapsed >= 0
            /\ \/ elapsed * pool_data[2].v > U64_MAX
               \/ elapsed * pool_data[2].v * user_data[1].v > U64_MAX)
           => logged = <<>>

\* C20: a reward call whose current_time is less than user.last_claim
\* computes no reward: the negative difference is not used as an elapsed
\* time.
C20_NegativeElapsedRejected ==
    (/\ call.op = "calculate_rewards"
     /\ Len(call.accts) >= 4
     /\ rewards_current_time < ledger[call.accts[2]].data[2].v)
    => logged = <<>>

(***************************************************************************)
(* arithmetic_errors.rs: vulnerable_transfer.  The handler reads and       *)
(* writes lamports only, stake and calculate_rewards read and write record *)
(* data only, so it is run in a specification of its own.                  *)
(***************************************************************************)
TransferKeys == 1..(NumWallets + 1)

vulnerable_transfer(accounts, accts, signers, idata, oc) ==
    IF Len(accts) < 3 THEN Ret("NotEnoughAccountKeys", accounts)
    ELSE
    LET from_account == accts[1]
        to_account == accts[2]
        user_account == accts[3]
    IN
    IF user_account \notin signers
    THEN Ret("MissingRequiredSignature", accounts)
    ELSE IF Len(idata) < 1 THEN Ret("Panic", accounts)
    ELSE
    LET amount == idata[1]
        debit == SubU64(accounts[from_account].lamports, amount, oc)
        a1 == [accounts EXCEPT ![from_account].lamports = debit.v]
        credit == AddU64(a1[to_account].lamports, amount, oc)
        a2 == [a1 EXCEPT ![to_account].lamports = credit.v]
    IN
    IF debit.panic THEN Ret("Panic", accounts)
    ELSE IF credit.panic THEN Ret("Panic", a1)
    ELSE Ret("Ok", a2)

\* The sum of the lamport balances of the accounts with keys 1..n.
RECURSIVE total_lamports(_, _)
total_lamports(accounts, n) ==
    IF n = 0 THEN 0 ELSE accounts[n].lamports + total_lamports(accounts, n - 1)

InitTransfer ==
    /\ \E l \in {1, U64_MAX - 1} :
         ledger = [k \in TransferKeys |->
            IF k \in Wallets THEN Account(system_program, l, <<>>)
            ELSE Account(program_id, U64_MAX, <<>>)]
    /\ call = NoCall
    /\ overflow_checks \in BOOLEAN
    /\ initialized = {}
    /\ logged = <<>>
    /\ inflight = NoFlight
    /\ withdrawals = NoWithdrawals

VulnerableTransfer ==
    \E accts \in RoleLists(<<TransferKeys, TransferKeys, {1}>>),
       signers \in SUBSET {1}, idata \in AmountData :
        Commit("vulnerable_transfer", accts, signers, idata,
               vulnerable_transfer(ledger, accts, signers, idata,
                                   overflow_checks))

NextTransfer == VulnerableTransfer

SpecTransfer == InitTransfer /\ [][NextTransfer]_vars

\* C21: a transfer whose amount exceeds the lamport balance of the source
\* changes no balance: no balance is the result of a subtraction that
\* wrapped.
C21_TransferUnderflowRejected ==
    [][(/\ call'.op = "vulnerable_transfer"
        /\ Len(call'.accts) >= 3
        /\ Len(call'.idata) >= 1
        /\ call'.idata[1] > ledger[call'.accts[1]].lamports)
       => ledger' = ledger]_vars

\* C30: lamports are conserved: a successful transfer leaves the sum of the
\* lamport balances of all accounts as it was, also when the source is the
\* destination.
C30_LamportsConserved ==
    [][(call'.op = "vulnerable_transfer" /\ call'.result = "Ok")
       => total_lamports(ledger', Len(ledger'))
            = total_lamports(ledger, Len(ledger))]_vars

(***************************************************************************)
(* arbitrary_cpi.rs                                                        *)
(***************************************************************************)
SystemProgramKey == NumWallets + 1

MaliciousProgramKey == NumWallets + 2

CpiKeys == 1..MaliciousProgramKey

\* const ALLOWED_PROGRAMS: &[Pubkey] = &[system_program::ID]
ALLOWED_PROGRAMS == {SystemProgramKey}

\* The accounts that hold a deployed program.
ExecutableKeys == {SystemProgramKey, MaliciousProgramKey}

\* invoke(&instruction, &[user_account, target_account]): the callee runs
\* with user_account as a signer and with the caller's instruction data.
\* The system program carries out the transfer the data asks for; the
\* attacker's program, holding the user's signature, has the same transfer
\* carried out.  An account that holds no program cannot be invoked.
invoke(accounts, target_program, user_account, target_account, idata) ==
    IF target_program \notin ExecutableKeys
    THEN Ret("IncorrectProgramId", accounts)
    ELSE IF Len(idata) < 1 THEN Ret("InvalidInstructionData", accounts)
    ELSE IF accounts[user_account].lamports < idata[1]
    THEN Ret("Custom", accounts)
    ELSE IF user_account # target_account
            /\ accounts[target_account].lamports + idata[1] > U64_MAX
    THEN Ret("Custom", accounts)
    ELSE
    LET a1 == [accounts EXCEPT ![user_account].lamports = @ - idata[1]]
    IN  Ret("Ok", [a1 EXCEPT ![target_account].lamports = @ + idata[1]])

arbitrary_cpi(accounts, accts, signers, idata, oc) ==
    IF Len(accts) < 3 THEN Ret("NotEnoughAccountKeys", accounts)
    ELSE
    LET user_account == accts[1]
        target_program == accts[2]
        target_account == accts[3]
        r == invoke(accounts, target_program, user_account, target_account,
                    idata)
    IN
    IF user_account \notin signers
    THEN Ret("MissingRequiredSignature", accounts)
    ELSE RetLog(r.result, r.accounts, <<target_program>>)

InitCpi ==
    /\ \E l \in {0, U64_MAX - 1} :
         ledger = [k \in CpiKeys |->
            IF k \in Wallets
            THEN Account(system_program, IF k = 1 THEN U64_MAX - 1 ELSE l,
                         <<>>)
            ELSE Account(system_program, 1, <<>>)]
    /\ call = NoCall
    /\ overflow_checks \in BOOLEAN
    /\ initialized = {}
    /\ logged = <<>>
    /\ inflight = NoFlight
    /\ withdrawals = NoWithdrawals

ArbitraryCpi ==
    \E accts \in RoleLists(<<Wallets, CpiKeys, Wallets>>),
       signers \in SUBSET Wallets, idata \in AmountData :
        Commit("arbitrary_cpi", accts, signers, idata,
               arbitrary_cpi(ledger, accts, signers, idata, overflow_checks))

NextCpi == ArbitraryCpi

SpecCpi == InitCpi /\ [][NextCpi]_vars

\* C28: a call whose target program is not in ALLOWED_PROGRAMS invokes
\* nothing: no program runs on its behalf, so no account changes, whoever
\* signed.
C28_OnlyAllowedProgramsInvoked ==
    [][(/\ call'.op = "arbitrary_cpi"
        /\ Len(call'.accts) >= 3
        /\ call'.accts[2] \notin ALLOWED_PROGRAMS)
       => ledger' = ledger]_vars

(***************************************************************************)
(* Two vulnerable_transfer operations on disjoint account sets, run by a   *)
(* dispatcher that interleaves their steps.                                *)
(***************************************************************************)
\* The accounts operation i may name; its user account is the first.
FlightKeys(i) == {2 * i - 1, 2 * i}

\* One step of operation i with a shared instruction buffer: the amount is
\* read from the data of the operation dispatched last, not from its own.
transfer_step_shared_data(accounts, flight, i, oc) ==
    LET op == flight.ops[i]
        idata == flight.ops[Len(flight.ops)].idata
        from_account == op.accts[1]
        to_account == op.accts[2]
        user_account == op.accts[3]
        done(res, a) ==
            [accounts |-> a, op |-> [op EXCEPT !.pc = "done", !.result = res]]
        goto(l, a) == [accounts |-> a, op |-> [op EXCEPT !.pc = l]]
    IN
    CASE op.pc = "bind" ->
           IF Len(op.accts) < 3 THEN done("NotEnoughAccountKeys", accounts)
           ELSE goto("signer", accounts)
      [] op.pc = "signer" ->
           IF user_account \notin op.signers
           THEN done("MissingRequiredSignature", accounts)
           ELSE goto("amount", accounts)
      [] op.pc = "amount" ->
           IF Len(idata) < 1 THEN done("Panic", accounts)
           ELSE goto("debit", accounts)
      [] op.pc = "debit" ->
           LET debit == SubU64(accounts[from_account].lamports, idata[1], oc)
           IN  IF debit.panic THEN done("Panic", accounts)
               ELSE goto("credit", [accounts EXCEPT
                                      ![from_account].lamports = debit.v])
      [] op.pc = "credit" ->
           LET credit == AddU64(accounts[to_account].lamports, idata[1], oc)
           IN  IF credit.panic THEN done("Panic", accounts)
               ELSE done("Ok", [accounts EXCEPT
                                  ![to_account].lamports = credit.v])

\* One step of operation i of the flight: the statements of
\* vulnerable_transfer, one at a time.  A step reads and writes the
\* operation's own locals and the accounts it names, nothing else.
transfer_step(accounts, flight, i, oc) ==
    LET op == flight.ops[i]
        idata == op.idata
        from_account == op.accts[1]
        to_account == op.accts[2]
        user_account == op.accts[3]
        done(res, a) ==
            [accounts |-> a, op |-> [op EXCEPT !.pc = "done", !.result = res]]
        goto(l, a) == [accounts |-> a, op |-> [op EXCEPT !.pc = l]]
    IN
    CASE op.pc = "bind" ->
           IF Len(op.accts) < 3 THEN done("NotEnoughAccountKeys", accounts)
           ELSE goto("signer", accounts)
      [] op.pc = "signer" ->
           IF user_account \notin op.signers
           THEN done("MissingRequiredSignature", accounts)
           ELSE goto("amount", accounts)
      [] op.pc = "amount" ->
           IF Len(idata) < 1 THEN done("Panic", accounts)
           ELSE goto("debit", accounts)
      [] op.pc = "debit" ->
           LET debit == SubU64(accounts[from_account].lamports, idata[1], oc)
           IN  IF debit.panic THEN done("Panic", accounts)
               ELSE goto("credit", [accounts EXCEPT
                                      ![from_account].lamports = debit.v])
      [] op.pc = "credit" ->
           LET credit == AddU64(accounts[to_account].lamports, idata[1], oc)
           IN  IF credit.panic THEN done("Panic", accounts)
               ELSE done("Ok", [accounts EXCEPT
                                  ![to_account].lamports = credit.v])

\* Two operations are dispatched, each naming accounts of its own set only.
InitInterleave ==
    /\ ledger = [k \in FlightKeys(1) \cup FlightKeys(2) |->
                   Account(system_program,
                           IF k \in {2 * i - 1 : i \in {1, 2}}
                           THEN U64_MAX \div 2 ELSE U64_MAX - 1, <<>>)]
    /\ call = NoCall
    /\ overflow_checks \in BOOLEAN
    /\ initialized = {}
    /\ logged = <<>>
    /\ \E a1 \in RoleLists(<<FlightKeys(1), FlightKeys(1), {1}>>),
          a2 \in RoleLists(<<FlightKeys(2), FlightKeys(2), {3}>>),
          s1 \in SUBSET {1}, s2 \in SUBSET {3},
          d1 \in AmountData, d2 \in AmountData :
         LET op(a, s, d) == [accts |-> a, signers |-> s, idata |-> d,
                             pc |-> "bind", result |-> "none"]
         IN  inflight = [genesis |-> ledger,
                         ops |-> <<op(a1, s1, d1), op(a2, s2, d2)>>,
                         mixed |-> FALSE]
    /\ withdrawals = NoWithdrawals

\* The dispatcher runs the next step of either operation.
InterleaveStep ==
    \E i \in {1, 2} :
        /\ inflight.ops[i].pc # "done"
        /\ LET r == transfer_step(ledger, inflight, i, overflow_checks)
           IN  /\ ledger' = r.accounts
               /\ inflight' =
                    [inflight EXCEPT
                       !.ops[i] = r.op,
                       !.mixed = @ \/ inflight.ops[3 - i].pc = "credit"]
        /\ UNCHANGED <<call, overflow_checks, initialized, logged,
                       withdrawals>>

NextInterleave == InterleaveStep

SpecInterleave == InitInterleave /\ [][NextInterleave]_vars

\* C27: when two transfers on disjoint account sets have both finished,
\* however their steps were interleaved, every account and both results are
\* what running the two handlers one after the other gives, in either order.
C27_InterleavingEqualsSequential ==
    (/\ inflight.ops # <<>>
     /\ \A i \in {1, 2} : inflight.ops[i].pc = "done") =>
        LET run(a, i) ==
                vulnerable_transfer(a, inflight.ops[i].accts,
                                    inflight.ops[i].signers,
                                    inflight.ops[i].idata, overflow_checks)
            first1 == run(inflight.genesis, 1)
            then2 == run(first1.accounts, 2)
            first2 == run(inflight.genesis, 2)
            then1 == run(first2.accounts, 1)
        IN  /\ ledger = then2.accounts
            /\ ledger = then1.accounts
            /\ inflight.ops[1].result = first1.result
            /\ inflight.ops[1].result = then1.result
            /\ inflight.ops[2].result = first2.result
            /\ inflight.ops[2].result = then2.result

C27_Witness ==
    /\ inflight.ops # <<>>
    /\ \A i \in {1, 2} : inflight.ops[i].result = "Ok"
    /\ inflight.mixed
    /\ \A k \in DOMAIN ledger : ledger[k] # inflight.genesis[k]

\* C23: escrow release returns the failure of the first check that fails, in
\* the order ownership of the profile and of the escrow, signer, decode,
\* profile owner, and changes nothing: with a foreign-owned profile and a
\* signer that did not sign, the result is the ownership error.
C23_FirstFailingCheckReturned ==
    [][(call'.op = "escrow_release" /\ Len(call'.accts) >= 4) =>
        LET profile == ledger[call'.accts[1]]
            escrow == ledger[call'.accts[2]]
            signer_account == call'.accts[4]
            bad_owner == \/ profile.owner # program_id
                         \/ escrow.owner # program_id
            unsigned == signer_account \notin call'.signers
            decoded == /\ try_from_slice(profile.data, UserProfileSize)
                       /\ try_from_slice(escrow.data, EscrowAccountSize)
        IN  /\ bad_owner =>
                  (call'.result = "IncorrectProgramId" /\ ledger' = ledger)
            /\ (~bad_owner /\ unsigned) =>
                  (/\ call'.result = "MissingRequiredSignature"
                   /\ ledger' = ledger)
            /\ (~bad_owner /\ ~unsigned /\ ~decoded) =>
                  (call'.result = "BorshIoError" /\ ledger' = ledger)
            /\ (/\ ~bad_owner /\ ~unsigned /\ decoded
                /\ profile.data[1].v # signer_account) =>
                  (call'.result = "InvalidAccountData" /\ ledger' = ledger)
       ]_vars

C23_Witness ==
    /\ call.op = "escrow_release"
    /\ Len(call.accts) >= 4
    /\ ledger[call.accts[1]].owner # program_id
    /\ call.accts[4] \notin call.signers
    /\ call.result = "IncorrectProgramId"

\* C24: a handler given fewer accounts than it binds returns
\* NotEnoughAccountKeys, whatever the accounts and signers are, and changes
\* no account.
C24_BindingBeforeChecks ==
    [][LET required ==
             CASE call'.op \in {"vulnerable_with_bump"} -> 1
               [] call'.op \in {"transfer", "withdraw_user", "admin_action",
                                "initialize", "deposit"} -> 2
               [] call'.op \in {"vault_withdraw", "vulnerable_token_withdraw",
                                "pda_withdraw", "withdraw_all", "stake",
                                "vulnerable_transfer", "arbitrary_cpi"} -> 3
               [] call'.op \in {"escrow_release", "calculate_rewards"} -> 4
               [] OTHER -> 0
       IN  Len(call'.accts) < required =>
             (call'.result = "NotEnoughAccountKeys" /\ ledger' = ledger)
      ]_vars

C24_Witness ==
    /\ call.op = "withdraw_all"
    /\ Len(call.accts) = 2
    /\ call.accts[2] \notin call.signers
    /\ call.result = "NotEnoughAccountKeys"

\* C22: the ownership check comes before the signer check: a PDA withdrawal
\* on a pda_account that another program owns returns the ownership error,
\* whoever signed.
C22_OwnershipBeforeSigner ==
    (/\ call.op = "pda_withdraw"
     /\ Len(call.accts) >= 3
     /\ ledger[call.accts[2]].owner # program_id)
    => call.result = "IncorrectProgramId"

\* C25: every call ends with success or with an error value: no call
\* aborts abnormally.
C25_NoAbnormalAbort == call.result # "Panic"

\* C26: after every successful withdraw_user the stored balance is the old
\* balance minus the amount, exactly.
C26_WithdrawUserExact ==
    [][(call'.op = "withdraw_user" /\ call'.result = "Ok")
       => ledger'[call'.accts[1]].data[2].v
            = ledger[call'.accts[1]].data[2].v - call'.idata[1]]_vars

\* C29: a vault withdrawal in which the account named by the vault's stored
\* authority did not sign changes neither the vault record nor any
\* lamport balance.
C29_WithdrawNeedsAuthoritySigner ==
    [][(/\ call'.op = "vault_withdraw"
        /\ Len(call'.accts) >= 3
        /\ try_from_slice(ledger[call'.accts[1]].data, VaultDataSize)
        /\ ledger[call'.accts[1]].data[1].v \notin call'.signers)
       => ledger' = ledger]_vars

\* C31: once the vault is initialized, every successful initialize or deposit
\* call keeps total_deposited equal to the lamports the vault has gained
\* since initialization: the call changes the two by the same amount.
C31_TotalDepositedTracksLamports ==
    [][(ConfigKey \in initialized /\ call'.result = "Ok") =>
         ledger'[ConfigKey].lamports - ledger'[ConfigKey].data[2].v
           = ledger[ConfigKey].lamports - ledger[ConfigKey].data[2].v]_vars

(***************************************************************************)
(* An empty pool and the stake records of two users.                       *)
(***************************************************************************)
OtherStakeKey == ClockKey + 1

InitStakePool ==
    /\ ledger = [k \in 1..OtherStakeKey |->
          CASE k = PoolKey -> Account(program_id, 1, StakingPool(0, 1, 0))
            [] k \in {StakeKey, OtherStakeKey} ->
                 Account(program_id, 1, UserStake(0, 0))
            [] OTHER -> Account(system_program, 1, <<>>)]
    /\ call = NoCall
    /\ overflow_checks \in BOOLEAN
    /\ initialized = {}
    /\ logged = <<>>
    /\ inflight = NoFlight
    /\ withdrawals = NoWithdrawals

StakeInto ==
    \E accts \in RoleLists(<<{PoolKey}, {StakeKey, OtherStakeKey}, Wallets>>),
       signers \in SUBSET Wallets, idata \in AmountData :
        Commit("stake", accts, signers, idata,
               stake(ledger, accts, signers, idata, overflow_checks))

SpecStakePool == InitStakePool /\ [][StakeInto]_vars

\* C32: starting from an empty pool, after any sequence of stake calls
\* pool.total_staked is the sum of the amounts of the users' stake records.
C32_TotalStakedIsSumOfStakes ==
    ledger[PoolKey].data[1].v
      = ledger[StakeKey].data[1].v + ledger[OtherStakeKey].data[1].v

(***************************************************************************)
(* withdraw_user calls on the accounts of type_confusion.rs, with the      *)
(* tally of what each account has paid out.                                *)
(***************************************************************************)
InitWithdrawals ==
    /\ \E rewards \in {1, MinAdminLevel}, ub \in {1, U64_MAX - MinAdminLevel} :
         ledger = [k \in TypeKeys |->
            CASE k = UserAccountKey ->
                   Account(program_id, 1, UserAccount(1, ub, rewards))
              [] k = AdminAccountKey ->
                   Account(program_id, 1, AdminAccount(2, 1, 1))
              [] OTHER -> Account(system_program, 1, <<>>)]
    /\ call = NoCall
    /\ overflow_checks \in BOOLEAN
    /\ initialized = {}
    /\ logged = <<>>
    /\ inflight = NoFlight
    /\ withdrawals =
         [available |->
            [k \in TypeKeys |->
               IF try_from_slice(ledger[k].data, UserAccountSize)
               THEN ledger[k].data[2].v + ledger[k].data[3].v ELSE 0],
          total |-> [k \in TypeKeys |-> 0]]

WithdrawFrom ==
    \E accts \in RoleLists(<<{UserAccountKey, AdminAccountKey}, Wallets>>),
       signers \in SUBSET Wallets, idata \in AmountData :
        Commit("withdraw_user", accts, signers, idata,
               withdraw_user(ledger, accts, signers, idata, overflow_checks))

SpecWithdrawals == InitWithdrawals /\ [][WithdrawFrom]_vars

\* C33: the amounts of the successful withdraw_user calls on an account
\* never add up to more than the balance plus rewards it started with.
C33_WithdrawnWithinAvailable ==
    \A k \in DOMAIN withdrawals.total :
        withdrawals.total[k] <= withdrawals.available[k]

\* C34: a successful escrow release clears escrow.amount in the call that
\* pays: the beneficiary is credited the amount the escrow held and the
\* escrow debited it (in word arithmetic), and a release of an escrow whose
\* amount is already 0 moves no lamports.  So an escrow pays out once.
C34_ReleasePaysOnce ==
    [][(call'.op = "escrow_release" /\ call'.result = "Ok") =>
        LET escrow_account == call'.accts[2]
            beneficiary_account == call'.accts[3]
            amount == ledger[escrow_account].data[2].v
        IN  /\ ledger'[escrow_account].data[2].v = 0
            /\ ledger'[beneficiary_account].lamports
                 = (ledger[beneficiary_account].lamports + amount)
                     % (U64_MAX + 1)
            /\ ledger'[escrow_account].lamports
                 = (ledger[escrow_account].lamports + U64_MAX + 1 - amount)
                     % (U64_MAX + 1)
            /\ amount = 0 =>
                 \A k \in DOMAIN ledger :
                     ledger'[k].lamports = ledger[k].lamports
       ]_vars

C34_Witness ==
    /\ call.op = "escrow_release"
    /\ call.result = "Ok"
    /\ ledger[call.accts[2]].data[2].v = 0
    /\ ledger[call.accts[3]].lamports > 0

\* C35: an escrow release called while the handler's current time is
\* earlier than the escrow's release_time returns an error and changes
\* neither escrow.amount nor any lamport balance.
C35_NoReleaseBeforeTime ==
    [][(/\ call'.op = "escrow_release"
        /\ Len(call'.accts) >= 4
        /\ try_from_slice(ledger[call'.accts[2]].data, EscrowAccountSize)
        /\ current_time < ledger[call'.accts[2]].data[3].v)
       => (IsErr(call'.result) /\ ledger' = ledger)]_vars

C35_Witness ==
    /\ call.op = "escrow_release"
    /\ Len(call.accts) >= 4
    /\ ledger[call.accts[1]].owner = program_id
    /\ call.accts[4] \in call.signers
    /\ ledger[call.accts[1]].data[1].v = call.accts[4]
    /\ current_time < ledger[call.accts[2]].data[3].v
    /\ ledger[call.accts[2]].data[2].v > 0
    /\ call.result = "InvalidAccountData"

\* C36: calculate_rewards and admin_action change no account, whether they
\* succeed, fail or abort; and a call of any handler that a check rejects
\* (accounts missing, owner, signer, stored relation, funds) changes no
\* account.
C36_ReadOnlyHandlersAndChecks ==
    [][/\ call'.op \in {"calculate_rewards", "admin_action"} =>
            ledger' = ledger
       /\ call'.result \in {"NotEnoughAccountKeys", "IncorrectProgramId",
                             "MissingRequiredSignature", "InvalidAccountData",
                             "InvalidSeeds", "InsufficientFunds"} =>
            ledger' = ledger
      ]_vars

C36_Witness ==
    /\ call.op = "calculate_rewards"
    /\ call.result = "Ok"
    /\ logged # <<>>

(***************************************************************************)
(* The entrypoints that dispatch on the first byte of the instruction      *)
(* data: arithmetic_errors.rs, reinitialization.rs, rent_exemption.rs and  *)
(* type_confusion.rs.  The first element of instruction_data is the tag.   *)
(***************************************************************************)
\* The dispatcher of arithmetic_errors.rs handing the handler the whole
\* instruction data, tag included: the slicing that C37 tells apart from
\* the entrypoint's.
process_instruction_keeps_tag(accounts, accts, signers, instruction_data, oc) ==
    IF Len(instruction_data) < 1 THEN Ret("Panic", accounts)
    ELSE
    LET instruction == instruction_data[1]
        rest == instruction_data
    IN
    CASE instruction = 0 ->
           stake(accounts, accts, signers, rest, oc)
      [] instruction = 1 ->
           calculate_rewards(accounts, accts, signers, rest, oc)
      [] instruction = 2 ->
           vulnerable_transfer(accounts, accts, signers, rest, oc)
      [] OTHER -> Ret("InvalidInstructionData", accounts)

process_instruction_arith(accounts, accts, signers, instruction_data, oc) ==
    IF Len(instruction_data) < 1 THEN Ret("Panic", accounts)
    ELSE
    LET instruction == instruction_data[1]
        rest == Tail(instruction_data)
    IN
    CASE instruction = 0 ->
           stake(accounts, accts, signers, rest, oc)
      [] instruction = 1 ->
           calculate_rewards(accounts, accts, signers, rest, oc)
      [] instruction = 2 ->
           vulnerable_transfer(accounts, accts, signers, rest, oc)
      [] OTHER -> Ret("InvalidInstructionData", accounts)

process_instruction_reinit(accounts, accts, signers, instruction_data, oc) ==
    IF Len(instruction_data) < 1 THEN Ret("Panic", accounts)
    ELSE
    LET instruction == instruction_data[1]
        rest == Tail(instruction_data)
    IN
    CASE instruction = 0 ->
           initialize(accounts, accts, signers, rest, oc)
      [] instruction = 1 ->
           deposit(accounts, accts, signers, rest, oc)
      [] OTHER -> Ret("InvalidInstructionData", accounts)

process_instruction_rent(accounts, accts, signers, instruction_data, oc) ==
    IF Len(instruction_data) < 1 THEN Ret("Panic", accounts)
    ELSE
    LET instruction == instruction_data[1]
        rest == Tail(instruction_data)
    IN
    CASE instruction = 0 ->
           initialize_user_data(accounts, accts, signers, rest, oc)
      [] instruction = 1 ->
           withdraw_all(accounts, accts, signers, rest, oc)
      [] OTHER -> Ret("InvalidInstructionData", accounts)

process_instruction_type(accounts, accts, signers, instruction_data, oc) ==
    IF Len(instruction_data) < 1 THEN Ret("Panic", accounts)
    ELSE
    LET instruction == instruction_data[1]
        rest == Tail(instruction_data)
    IN
    CASE instruction = 0 ->
           withdraw_user(accounts, accts, signers, rest, oc)
      [] instruction = 1 ->
           admin_action(accounts, accts, signers, rest, oc)
      [] OTHER -> Ret("InvalidInstructionData", accounts)

DispatchArith ==
    \E accts \in RoleLists(<<{PoolKey}, {StakeKey}, {1}, {ClockKey}>>),
       signers \in {{}, Wallets},
       instruction_data \in
           {<<>>} \cup {<<tag>> \o data : tag \in 0..3, data \in AmountData} :
        Commit("process_instruction_arith", accts, signers, instruction_data,
               process_instruction_arith(ledger, accts, signers, instruction_data,
                   overflow_checks))

DispatchReinit ==
    \E accts \in RoleLists(<<{ConfigKey}, Wallets>>),
       signers \in {{}, Wallets},
       instruction_data \in
           {<<>>} \cup {<<tag>> \o data : tag \in 0..3, data \in AmountData} :
        Commit("process_instruction_reinit", accts, signers, instruction_data,
               process_instruction_reinit(ledger, accts, signers, instruction_data,
                   overflow_checks))

DispatchRent ==
    \E accts \in RoleLists(<<{RentDataKey}, Wallets, Wallets>>),
       signers \in {{}, Wallets},
       instruction_data \in
           {<<>>} \cup {<<tag>> \o data : tag \in 0..3, data \in AmountData} :
        Commit("process_instruction_rent", accts, signers, instruction_data,
               process_instruction_rent(ledger, accts, signers, instruction_data,
                   overflow_checks))

DispatchType ==
    \E accts \in RoleLists(<<{UserAccountKey, AdminAccountKey}, Wallets>>),
       signers \in {{}, Wallets},
       instruction_data \in
           {<<>>} \cup {<<tag>> \o data : tag \in 0..3, data \in AmountData} :
        Commit("process_instruction_type", accts, signers, instruction_data,
               process_instruction_type(ledger, accts, signers, instruction_data,
                   overflow_checks))

SpecDispatchArith == InitStakePool /\ [][DispatchArith]_vars

SpecDispatchReinit == InitReinit /\ [][DispatchReinit]_vars

SpecDispatchRent == InitRent /\ [][DispatchRent]_vars

SpecDispatchType == InitWithdrawals /\ [][DispatchType]_vars

\* C37: an entrypoint called with a first byte that names no operation
\* returns InvalidInstructionData and changes no account; called with a
\* known first byte it does what the one handler of that byte does on the
\* instruction data without its first byte, and returns that handler's
\* result.
C37_DispatchOnFirstByte ==
    [][(call'.op \in {"process_instruction_arith",
                      "process_instruction_reinit",
                      "process_instruction_rent",
                      "process_instruction_type"}
        /\ Len(call'.idata) >= 1) =>
        LET tag == call'.idata[1]
            rest == Tail(call'.idata)
            h(op) ==
              CASE op = "stake" ->
                     stake(ledger, call'.accts, call'.signers, rest,
                           overflow_checks)
                [] op = "calculate_rewards" ->
                     calculate_rewards(ledger, call'.accts, call'.signers,
                                       rest, overflow_checks)
                [] op = "vulnerable_transfer" ->
                     vulnerable_transfer(ledger, call'.accts, call'.signers,
                                         rest, overflow_checks)
                [] op = "initialize" ->
                     initialize(ledger, call'.accts, call'.signers, rest,
                                overflow_checks)
                [] op = "deposit" ->
                     deposit(ledger, call'.accts, call'.signers, rest,
                             overflow_checks)
                [] op = "initialize_user_data" ->
                     initialize_user_data(ledger, call'.accts, call'.signers,
                                          rest, overflow_checks)
                [] op = "withdraw_all" ->
                     withdraw_all(ledger, call'.accts, call'.signers, rest,
                                  overflow_checks)
                [] op = "withdraw_user" ->
                     withdraw_user(ledger, call'.accts, call'.signers, rest,
                                   overflow_checks)
                [] op = "admin_action" ->
                     admin_action(ledger, call'.accts, call'.signers, rest,
                                  overflow_checks)
            table ==
              CASE call'.op = "process_instruction_arith" ->
                     <<"stake", "calculate_rewards", "vulnerable_transfer">>
                [] call'.op = "process_instruction_reinit" ->
                     <<"initialize", "deposit">>
                [] call'.op = "process_instruction_rent" ->
                     <<"initialize_user_data", "withdraw_all">>
                [] call'.op = "process_instruction_type" ->
                     <<"withdraw_user", "admin_action">>
        IN  IF tag + 1 \in DOMAIN table
            THEN /\ call'.result = h(table[tag + 1]).result
                 /\ ledger' = h(table[tag + 1]).accounts
            ELSE /\ call'.result = "InvalidInstructionData"
                 /\ ledger' = ledger
       ]_vars

C37_Witness ==
    /\ call.op = "process_instruction_arith"
    /\ Len(call.idata) = 2
    /\ call.idata[1] = 0
    /\ call.result = "Ok"
    /\ ledger[call.accts[2]].data[1].v >= call.idata[2]

====
